---- MODULE Spec2Model ----
(***************************************************************************)
(* The three demo programs of the repository, each a class App whose       *)
(* constructor acquires a WebGL context and (in two of them) compiles two  *)
(* shaders, links a program, uploads one triangle and starts a frame loop  *)
(* driven by window.requestAnimationFrame:                                 *)
(*   "clear"  src/unnamed/part_000   context + clear only                  *)
(*   "2d"     src/src/cube.ts        flat triangle                         *)
(*   "3d"     src/unnamed/part_001   triangle rotating about the Y axis    *)
(* A page runs one of the programs; App may be constructed more than once  *)
(* on it, and every instance looks up the same canvas, whose getContext    *)
(* hands every caller the same context object.  JavaScript runs each       *)
(* constructor and each callback to completion: `active` names the         *)
(* instance whose constructor is on the stack, and nothing else runs       *)
(* while it is non-zero.                                                   *)
(*                                                                         *)
(* Numbers: vertex components are kept in tenths (0.5 is 5, 1.0 is 10),    *)
(* the clear colour in hundredths.  The clock advances in steps of a       *)
(* quarter of the 6000 ms rotation period, so that the sine and cosine of  *)
(* every angle the loop computes are integers.                             *)
(***************************************************************************)
EXTENDS Integers, Sequences, FiniteSets, TLC

\* ------------------------------------------------------------- bounds
MaxApps == 2        \* App instances constructed on the page
MaxTime == 2        \* clock steps (quarter periods) the clock may advance
MaxPending == 2     \* pending[i] saturates here
MaxFairApps == 1    \* App instances constructed under FairSpec

\* ------------------------------------------------- program constants
PeriodSeconds == 6          \* Date.now() / 1000 / 6 * 2 * Math.PI
MsPerSecond == 1000
QuarterTurnMs == (MsPerSecond * PeriodSeconds) \div 4
DrawFirst == 0              \* drawArrays(TRIANGLES, 0, 3)
DrawCount == 3

Apps == 1..MaxApps
Variants == {"clear", "2d", "3d"}

Min(a, b) == IF a < b THEN a ELSE b
\* history counters saturate at 2: the properties tell 0, 1 and "more than 1" apart
Bump(n) == Min(n + 1, 2)

\* ------------------------------------------------------ gl-matrix
Identity == <<1,0,0,0, 0,1,0,0, 0,0,1,0, 0,0,0,1>>
ZeroMatrix == <<0,0,0,0, 0,0,0,0, 0,0,0,0, 0,0,0,0>>
YAxis == <<0, 1, 0>>

\* sine and cosine of q quarter turns
Sin(q) == CASE q % 4 = 0 -> 0 [] q % 4 = 1 -> 1 [] q % 4 = 2 -> 0 [] OTHER -> -1
Cos(q) == CASE q % 4 = 0 -> 1 [] q % 4 = 1 -> 0 [] q % 4 = 2 -> -1 [] OTHER -> 0

\* angle = Date.now() / 1000 / 6 * 2 * Math.PI, in quarter turns
Angle(ms) == (ms * 4) \div (MsPerSecond * PeriodSeconds)

\* mat4.rotate(out, a, rad, axis) of gl-matrix for a unit axis: out = a * R,
\* column-major; the fourth column of a is copied.
Rotate(a, q, axis) ==
    LET x == axis[1]  y == axis[2]  z == axis[3]
        s == Sin(q)   c == Cos(q)   t == 1 - Cos(q)
        b == << <<x*x*t + c,   y*x*t + z*s, z*x*t - y*s>>,
                <<x*y*t - z*s, y*y*t + c,   z*y*t + x*s>>,
                <<x*z*t + y*s, y*z*t - x*s, z*z*t + c>> >>
    IN [k \in 1..16 |->
          LET col == (k - 1) \div 4
              row == (k - 1) % 4
          IN IF col = 3 THEN a[k]
             ELSE a[row + 1] * b[col + 1][1] + a[row + 5] * b[col + 1][2]
                  + a[row + 9] * b[col + 1][3]]

\* ------------------------------------------------------ vertex data
TriangleVertices2D == <<0, 5, 10, 0, 0,   -5, -5, 0, 10, 0,   5, -5, 0, 0, 10>>
TriangleVertices3D ==
    <<0, 5, 0, 10, 0, 0,   -5, -5, 0, 0, 10, 0,   5, -5, 0, 0, 0, 10>>
\* (variant of TriangleVertices: a fourth vertex is appended to the literal)
QuadVertices(v) ==
    (IF v = "3d" THEN TriangleVertices3D ELSE TriangleVertices2D)
        \o (IF v = "3d" THEN <<5, 5, 0, 10, 10, 10>> ELSE <<5, 5, 10, 10, 10>>)

TriangleVertices(v) == IF v = "3d" THEN TriangleVertices3D ELSE TriangleVertices2D
\* floats per vertex (the stride of vertexAttribPointer over BYTES_PER_ELEMENT)
VertexSize(v) == IF v = "3d" THEN 6 ELSE 5
PositionSize(v) == IF v = "3d" THEN 3 ELSE 2
ColorSize == 3
ClearColor == <<75, 85, 80, 100>>
BytesPerElement == 4        \* Float32Array.BYTES_PER_ELEMENT

\* ------------------------------------------------------ handles
NullHandle == 0
NullLocation == [program |-> 0, name |-> "null"]

VARIABLES
    \* the host: the page and its WebGL implementation
    host,           \* [variant, canvas, context, compileV, compileF, link, validate]
    now,            \* Date.now(), in ms
    active,         \* instance whose constructor is running, 0 when none
    pending,        \* pending[i]: requestAnimationFrame callbacks of i not yet run
    \* the one WebGL context of the canvas
    glClearColor, glShaders, glPrograms, glUniforms, glBuffers,
    glArrayBuffer, glAttribs, glCurrentProgram, glError,
    \* the fields of App, one function per field
    pc, canvas, gl, vertexShader, fragmentShader, program,
    triangleVertexBuffer, worldMatrix, worldAttributeLocation,
    identityMatrix, angle, running,
    \* what each instance has done (history, read by the properties only)
    hist

hostVars == <<host, now>>
glVars == <<glClearColor, glShaders, glPrograms, glUniforms, glBuffers,
            glArrayBuffer, glAttribs, glCurrentProgram, glError>>
fieldVars == <<canvas, gl, vertexShader, fragmentShader, program,
               triangleVertexBuffer, worldMatrix, worldAttributeLocation,
               identityMatrix, angle, running>>
vars == <<hostVars, active, pending, glVars, pc, fieldVars, hist>>

\* The names the constructor passes to getContext, in the order it tries them.
ContextNames == {"webgl", "experimental-webgl"}

\* canvas.getContext(name): the context (TRUE) or null (FALSE).  host.context is
\* the first of the two names the browser knows; a browser that knows "webgl"
\* knows its older alias too.
HostGetContext(name) ==
    \/ host.context = "webgl"
    \/ host.context = "experimental-webgl" /\ name = "experimental-webgl"

\* The page and its WebGL implementation.  Every instance compiles the same two
\* sources on the same context, so the four statuses are the page's, not the
\* instance's.  The implementation links only shaders that compiled and
\* validates only a program that linked.
HostConfigs ==
    {h \in [variant : Variants, canvas : BOOLEAN, context : ContextNames \cup {"none"},
            compileV : BOOLEAN, compileF : BOOLEAN,
            link : BOOLEAN, validate : BOOLEAN] :
        /\ h.link => (h.compileV /\ h.compileF)
        /\ h.validate => h.link}

NoHistory ==
    [contextRequests |-> <<>>,  \* names passed to getContext
     steps |-> <<>>,            \* constructor steps entered, in order
     diag |-> <<>>,             \* console.error messages
     bufferData |-> 0,          \* bufferData calls
     viewUploads |-> 0,         \* uniformMatrix4fv calls on matrixView
     projUploads |-> 0,         \* uniformMatrix4fv calls on matrixProjection
     frameOps |-> <<>>,         \* GL calls of the latest loop() invocation
     uploaded |-> <<>>,         \* matrix passed to the latest matrixWorld upload
     drawArgs |-> <<"", 0, 0>>, \* arguments of the latest drawArrays
     drawProgram |-> 0,         \* program current at the latest drawArrays
     drawWorld |-> <<>>,        \* its matrixWorld at the latest drawArrays
     stopCalled |-> FALSE,      \* stop() has been invoked
     framesAfterStop |-> 0,     \* loop() invocations since the first stop()
     requestsAfterStop |-> 0]   \* requestAnimationFrame calls since the first stop()

Init ==
    /\ host \in HostConfigs
    /\ now = 0
    /\ active = 0
    /\ pending = [i \in Apps |-> 0]
    /\ glClearColor = <<0, 0, 0, 0>>
    /\ glShaders = <<>>
    /\ glPrograms = <<>>
    /\ glUniforms = <<>>
    /\ glBuffers = <<>>
    /\ glArrayBuffer = NullHandle
    /\ glAttribs = [l \in 0..1 |-> [enabled |-> FALSE, buffer |-> NullHandle,
                                     size |-> 0, stride |-> 0, offset |-> 0]]
    /\ glCurrentProgram = NullHandle
    /\ glError = FALSE
    /\ pc = [i \in Apps |-> "none"]
    /\ canvas = [i \in Apps |-> FALSE]
    /\ gl = [i \in Apps |-> FALSE]
    /\ vertexShader = [i \in Apps |-> NullHandle]
    /\ fragmentShader = [i \in Apps |-> NullHandle]
    /\ program = [i \in Apps |-> NullHandle]
    /\ triangleVertexBuffer = [i \in Apps |-> NullHandle]
    /\ worldMatrix = [i \in Apps |-> <<>>]
    /\ worldAttributeLocation = [i \in Apps |-> NullLocation]
    /\ identityMatrix = [i \in Apps |-> <<>>]
    /\ angle = [i \in Apps |-> 0]
    /\ running = [i \in Apps |-> FALSE]
    /\ hist = [i \in Apps |-> NoHistory]

\* ------------------------------------------------------ WebGL calls
Linked(progs, p) == p # NullHandle /\ progs[p].linked

\* getAttribLocation: -1 unless the program linked
GetAttribLocation(progs, p, name) ==
    IF Linked(progs, p) THEN (IF name = "vertPosition" THEN 0 ELSE 1) ELSE -1

\* getUniformLocation: null unless the program linked
GetUniformLocation(progs, p, name) ==
    IF Linked(progs, p) THEN [program |-> p, name |-> name] ELSE NullLocation

\* vertexAttribPointer + enableVertexAttribArray: record the buffer bound to
\* ARRAY_BUFFER; an index of -1 is INVALID_VALUE and changes nothing
VertexAttribPointer(attribs, loc, buf, size, stride, offset) ==
    IF loc \in DOMAIN attribs
    THEN [attribs EXCEPT ![loc] = [enabled |-> TRUE, buffer |-> buf, size |-> size,
                                   stride |-> stride, offset |-> offset]]
    ELSE attribs

\* useProgram: INVALID_OPERATION, and no change, for a program that did not link
UseProgram(progs, cur, p) == IF Linked(progs, p) THEN p ELSE cur

\* uniformMatrix4fv: ignored for a null location, INVALID_OPERATION (and no
\* change) for a location that is not of the current program
UniformMatrix4fv(uniforms, cur, loc, value) ==
    IF loc = NullLocation \/ loc.program # cur THEN uniforms
    ELSE [uniforms EXCEPT ![cur][loc.name] = value]

UniformRejected(cur, loc) == loc # NullLocation /\ loc.program # cur

\* ------------------------------------------------------ App
Record(i, step) == [hist[i] EXCEPT !.steps = Append(@, step)]

Crash(i) ==
    /\ pc' = [pc EXCEPT ![i] = "crashed"]
    /\ active' = 0

\* new App(): field initialisers, then document.getElementById("game-surface")
New(i) ==
    /\ active = 0
    /\ pc[i] = "none"
    /\ \A j \in Apps : j < i => pc[j] # "none"
    /\ active' = i
    /\ running' = [running EXCEPT ![i] = TRUE]
    /\ canvas' = [canvas EXCEPT ![i] = host.canvas]
    /\ pc' = [pc EXCEPT ![i] = "getContext"]
    /\ hist' = [hist EXCEPT ![i] = Record(i, "constructor")]
    /\ UNCHANGED <<hostVars, pending, glVars, gl, vertexShader, fragmentShader,
                   program, triangleVertexBuffer, worldMatrix,
                   worldAttributeLocation, identityMatrix, angle>>

\* (variant of NeedsFallback: the fallback name is requested unconditionally)
AlwaysFallback(ctx) == TRUE

\* if (!this.gl)
NeedsFallback(ctx) == ~ctx

\* this.gl = canvas.getContext("webgl"), then the fallback name
GetContext(i) ==
    /\ active = i
    /\ pc[i] = "getContext"
    /\ IF ~canvas[i]
       THEN /\ Crash(i)
            /\ UNCHANGED <<gl, hist>>
       ELSE LET first == HostGetContext("webgl")
                second == HostGetContext("experimental-webgl")
            IN /\ gl' = [gl EXCEPT ![i] = IF NeedsFallback(first) THEN second ELSE first]
               /\ hist' = [hist EXCEPT ![i].contextRequests =
                              IF NeedsFallback(first)
                              THEN <<"webgl", "experimental-webgl">>
                              ELSE <<"webgl">>]
               /\ pc' = [pc EXCEPT ![i] = "setClearColor"]
               /\ UNCHANGED active
    /\ UNCHANGED <<hostVars, pending, glVars, canvas, vertexShader, fragmentShader,
                   program, triangleVertexBuffer, worldMatrix,
                   worldAttributeLocation, identityMatrix, angle, running>>

\* this.gl.clearColor(.75, .85, .8, 1): a TypeError when this.gl is null
SetClearColor(i) ==
    /\ active = i
    /\ pc[i] = "setClearColor"
    /\ IF ~gl[i]
       THEN /\ Crash(i)
            /\ UNCHANGED <<glClearColor, hist>>
       ELSE /\ glClearColor' = ClearColor
            /\ hist' = [hist EXCEPT ![i] = Record(i, "setClearColor")]
            /\ pc' = [pc EXCEPT ![i] = "clearScreen"]
            /\ UNCHANGED active
    /\ UNCHANGED <<hostVars, pending, glShaders, glPrograms, glUniforms, glBuffers,
                   glArrayBuffer, glAttribs, glCurrentProgram, glError, fieldVars>>

\* the constructor's clearScreen(); the "clear" program's constructor ends here
\* (the pixels of the drawing buffer are not part of the state)
ClearScreen(i) ==
    /\ active = i
    /\ pc[i] = "clearScreen"
    /\ hist' = [hist EXCEPT ![i] = Record(i, "clearScreen")]
    /\ IF host.variant = "clear"
       THEN /\ pc' = [pc EXCEPT ![i] = "constructed"]
            /\ active' = 0
       ELSE /\ pc' = [pc EXCEPT ![i] = "createShaders"]
            /\ UNCHANGED active
    /\ UNCHANGED <<hostVars, pending, glVars, fieldVars>>

\* (variant of StatusFailed: the negation of the status test is dropped)
StatusInverted(status) == status

\* if (!getShaderParameter(shader, COMPILE_STATUS)) / if (!getProgramParameter(..))
StatusFailed(status) == ~status

Diagnose(status, message) == IF StatusFailed(status) THEN <<message>> ELSE <<>>

\* addShader: createShader, shaderSource, compileShader, query, diagnostic
AddShader(shaders, type, compiles) ==
    Append(shaders, [type |-> type, compiled |-> compiles])

CreateShaders(i) ==
    /\ active = i
    /\ pc[i] = "createShaders"
    /\ LET withV == AddShader(glShaders, "VERTEX_SHADER", host.compileV)
           withF == AddShader(withV, "FRAGMENT_SHADER", host.compileF)
       IN /\ glShaders' = withF
          /\ vertexShader' = [vertexShader EXCEPT ![i] = Len(withV)]
          /\ fragmentShader' = [fragmentShader EXCEPT ![i] = Len(withF)]
          /\ hist' = [hist EXCEPT ![i] =
                [Record(i, "createShaders") EXCEPT !.diag =
                    @ \o Diagnose(withF[Len(withV)].compiled, "Error compiling shader ")
                      \o Diagnose(withF[Len(withF)].compiled, "Error compiling shader ")]]
    /\ pc' = [pc EXCEPT ![i] = "createProgram"]
    /\ UNCHANGED <<hostVars, active, pending, glClearColor, glPrograms, glUniforms,
                   glBuffers, glArrayBuffer, glAttribs, glCurrentProgram, glError,
                   canvas, gl, program, triangleVertexBuffer, worldMatrix,
                   worldAttributeLocation, identityMatrix, angle, running>>

\* createProgram, attachShader x2, linkProgram, validateProgram, two queries
CreateProgram(i) ==
    /\ active = i
    /\ pc[i] = "createProgram"
    /\ LET links == /\ glShaders[vertexShader[i]].compiled
                    /\ glShaders[fragmentShader[i]].compiled
                    /\ host.link
           valid == links /\ host.validate
           p == Len(glPrograms) + 1
       IN /\ glPrograms' = Append(glPrograms,
                [vs |-> vertexShader[i], fs |-> fragmentShader[i],
                 linked |-> links, validated |-> valid])
          /\ glUniforms' = Append(glUniforms,
                [matrixWorld |-> ZeroMatrix, matrixView |-> "zero",
                 matrixProjection |-> "zero"])
          /\ program' = [program EXCEPT ![i] = p]
          /\ hist' = [hist EXCEPT ![i] =
                [Record(i, "createProgram") EXCEPT !.diag =
                    @ \o Diagnose(links, "Could not link program")
                      \o Diagnose(valid, "ERROR invalidating program")]]
    /\ pc' = [pc EXCEPT ![i] = "createBuffer"]
    /\ UNCHANGED <<hostVars, active, pending, glClearColor, glShaders, glBuffers,
                   glArrayBuffer, glAttribs, glCurrentProgram, glError,
                   canvas, gl, vertexShader, fragmentShader, triangleVertexBuffer,
                   worldMatrix, worldAttributeLocation, identityMatrix, angle,
                   running>>

\* createBuffer: the triangle, the two attribute pointers and, in the 3-D
\* program, useProgram and the three matrix uniforms
CreateBuffer(i) ==
    /\ active = i
    /\ pc[i] = "createBuffer"
    /\ LET v == host.variant
           p == program[i]
           buf == Len(glBuffers) + 1
           posLoc == GetAttribLocation(glPrograms, p, "vertPosition")
           colLoc == GetAttribLocation(glPrograms, p, "vertColor")
           stride == VertexSize(v) * BytesPerElement
           withPos == VertexAttribPointer(glAttribs, posLoc, buf,
                                          PositionSize(v), stride, 0)
           withCol == VertexAttribPointer(withPos, colLoc, buf, ColorSize, stride,
                                          PositionSize(v) * BytesPerElement)
           cur == UseProgram(glPrograms, glCurrentProgram, p)
           worldLoc == GetUniformLocation(glPrograms, p, "matrixWorld")
           viewLoc == GetUniformLocation(glPrograms, p, "matrixView")
           projLoc == GetUniformLocation(glPrograms, p, "matrixProjection")
           u1 == UniformMatrix4fv(glUniforms, cur, worldLoc, Identity)
           u2 == UniformMatrix4fv(u1, cur, viewLoc, "lookAt")
           u3 == UniformMatrix4fv(u2, cur, projLoc, "perspective")
       IN /\ glBuffers' = Append(glBuffers, TriangleVertices(v))
          /\ glArrayBuffer' = buf
          /\ triangleVertexBuffer' = [triangleVertexBuffer EXCEPT ![i] = buf]
          /\ glAttribs' = withCol
          /\ glError' = (glError \/ ~Linked(glPrograms, p))
          /\ IF v = "3d"
             THEN /\ glCurrentProgram' = cur
                  /\ glUniforms' = u3
                  /\ worldAttributeLocation' =
                        [worldAttributeLocation EXCEPT ![i] = worldLoc]
                  /\ worldMatrix' = [worldMatrix EXCEPT ![i] = Identity]
                  /\ hist' = [hist EXCEPT ![i] =
                        [Record(i, "createBuffer") EXCEPT
                            !.bufferData = Bump(@),
                            !.viewUploads = Bump(@),
                            !.projUploads = Bump(@)]]
             ELSE /\ hist' = [hist EXCEPT ![i] =
                        [Record(i, "createBuffer") EXCEPT !.bufferData = Bump(@)]]
                  /\ UNCHANGED <<glCurrentProgram, glUniforms,
                                 worldAttributeLocation, worldMatrix>>
    /\ pc' = [pc EXCEPT ![i] = "mainRenderLoop"]
    /\ UNCHANGED <<hostVars, active, pending, glClearColor, glShaders, glPrograms,
                   canvas, gl, vertexShader, fragmentShader, program,
                   identityMatrix, angle, running>>

\* (variant of LoopCalls: the 2-D loop's useProgram is dropped and the triangle
\* is drawn before the surface is cleared)
LoopCallsDrawFirst(v) ==
    IF v = "3d" THEN <<"uniformMatrix4fv", "drawArrays", "clear">>
    ELSE <<"drawArrays", "clear">>

\* the GL calls of one invocation of loop(), in order
LoopCalls(v) ==
    IF v = "3d" THEN <<"uniformMatrix4fv", "clear", "drawArrays">>
    ELSE <<"clear", "useProgram", "drawArrays">>

\* (variant of RotationInput: the rotation is applied to the previous world
\* matrix, so it accumulates from frame to frame)
RotationAccumulated(i, ident) == worldMatrix[i]

\* the matrix mat4.rotate reads: the closure's identityMatrix
RotationInput(i, ident) == ident

\* (variants of Requested: the flag is not tested; nothing is scheduled; the
\* callback is scheduled twice)
RequestedAlways(i) == 1
RequestedNever(i) == 0
RequestedTwice(i) == IF running[i] THEN 2 ELSE 0

\* if (this.running) window.requestAnimationFrame(() => loop()): calls made
Requested(i) == IF running[i] THEN 1 ELSE 0

\* (variant of StopValue: stop() toggles the flag)
StopToggles(r) == ~r

\* stop(): this.running = false
StopValue(r) == FALSE

\* One GL call of loop() by instance i, with wm the matrix mat4.rotate wrote,
\* on s = [uniforms, cur, error, h]: the context's uniforms, current program and
\* error flag, and the instance's history.
ExecCall(call, i, wm, s) ==
    LET loc == worldAttributeLocation[i]
        t == [s EXCEPT !.h.frameOps = Append(@, call)]
    IN CASE call = "uniformMatrix4fv" ->
              [t EXCEPT !.uniforms = UniformMatrix4fv(@, s.cur, loc, wm),
                        !.error = @ \/ UniformRejected(s.cur, loc),
                        !.h.uploaded = wm]
         [] call = "useProgram" ->
              [t EXCEPT !.cur = UseProgram(glPrograms, @, program[i]),
                        !.error = @ \/ ~Linked(glPrograms, program[i])]
         [] call = "drawArrays" ->
              [t EXCEPT !.error = @ \/ s.cur = NullHandle,
                        !.h.drawArgs = <<"TRIANGLES", DrawFirst, DrawCount>>,
                        !.h.drawProgram = s.cur,
                        !.h.drawWorld = IF s.cur # NullHandle
                                        THEN s.uniforms[s.cur].matrixWorld ELSE <<>>]
         [] OTHER -> t   \* clear(COLOR_BUFFER_BIT | DEPTH_BUFFER_BIT)

\* the calls in order, each on the state the one before it left (the state is
\* bound through a one-element set so that it is computed once)
RECURSIVE ExecCalls(_, _, _, _)
ExecCalls(calls, i, wm, s) ==
    IF calls = <<>> THEN s
    ELSE CHOOSE r \in {ExecCalls(Tail(calls), i, wm, t) :
                           t \in {ExecCall(Head(calls), i, wm, s)}} : TRUE

\* One invocation of loop() by instance i, having consumed `consumed` pending
\* callbacks, with `ident` the closure's identityMatrix.
LoopBody(i, consumed, ident) ==
    LET v == host.variant
        q == Angle(now)
        req == Requested(i)
        after == hist[i].stopCalled
        h0 == IF consumed = 0 THEN Record(i, "mainRenderLoop") ELSE hist[i]
    IN \E wm \in {IF v = "3d" THEN Rotate(RotationInput(i, ident), q, YAxis)
                  ELSE worldMatrix[i]} :
       \E done \in {ExecCalls(LoopCalls(v), i, wm,
                       [uniforms |-> glUniforms, cur |-> glCurrentProgram,
                        error |-> glError, h |-> [h0 EXCEPT !.frameOps = <<>>]])} :
       /\ angle' = [angle EXCEPT ![i] = IF v = "3d" THEN q ELSE @]
       /\ worldMatrix' = [worldMatrix EXCEPT ![i] = wm]
       /\ glUniforms' = done.uniforms
       /\ glCurrentProgram' = done.cur
       /\ glError' = done.error
       /\ pending' = [pending EXCEPT ![i] = Min((@ - consumed) + req, MaxPending)]
       /\ hist' = [hist EXCEPT ![i] =
            [done.h EXCEPT
                !.framesAfterStop = IF after THEN Bump(@) ELSE @,
                !.requestsAfterStop = IF after THEN Min(@ + req, 2) ELSE @]]

\* mainRenderLoop(): angle, identityMatrix, then the first loop() synchronously
MainRenderLoop(i) ==
    /\ active = i
    /\ pc[i] = "mainRenderLoop"
    /\ identityMatrix' = [identityMatrix EXCEPT ![i] =
                             IF host.variant = "3d" THEN Identity ELSE @]
    /\ LoopBody(i, 0, Identity)
    /\ pc' = [pc EXCEPT ![i] = "constructed"]
    /\ active' = 0
    /\ UNCHANGED <<hostVars, glClearColor, glShaders, glPrograms, glBuffers,
                   glArrayBuffer, glAttribs, canvas, gl, vertexShader,
                   fragmentShader, program, triangleVertexBuffer,
                   worldAttributeLocation, running>>

\* the host runs a pending requestAnimationFrame callback of instance i
Frame(i) ==
    /\ active = 0
    /\ pc[i] = "constructed"
    /\ pending[i] > 0
    /\ LoopBody(i, 1, identityMatrix[i])
    /\ UNCHANGED <<hostVars, active, pc, glClearColor, glShaders, glPrograms,
                   glBuffers, glArrayBuffer, glAttribs, canvas, gl, vertexShader,
                   fragmentShader, program, triangleVertexBuffer,
                   worldAttributeLocation, identityMatrix, running>>

\* stop(), the public entry point of the two programs with a render loop
Stop(i) ==
    /\ active = 0
    /\ pc[i] = "constructed"
    /\ host.variant # "clear"
    /\ running' = [running EXCEPT ![i] = StopValue(running[i])]
    /\ hist' = [hist EXCEPT ![i].stopCalled = TRUE]
    /\ UNCHANGED <<hostVars, active, pending, glVars, pc, canvas, gl, vertexShader,
                   fragmentShader, program, triangleVertexBuffer, worldMatrix,
                   worldAttributeLocation, identityMatrix, angle>>

\* the clock advances between callbacks
Tick ==
    /\ active = 0
    /\ now < MaxTime * QuarterTurnMs
    /\ now' = now + QuarterTurnMs
    /\ UNCHANGED <<host, active, pending, glVars, pc, fieldVars, hist>>

\* the rest of a constructor that has been entered
Continue(i) ==
    \/ GetContext(i)
    \/ SetClearColor(i)
    \/ ClearScreen(i)
    \/ CreateShaders(i)
    \/ CreateProgram(i)
    \/ CreateBuffer(i)
    \/ MainRenderLoop(i)

Next ==
    \/ \E i \in Apps : New(i)
    \/ \E i \in Apps : Continue(i)
    \/ \E i \in Apps : Frame(i)
    \/ \E i \in Apps : Stop(i)
    \/ Tick

Spec == Init /\ [][Next]_vars

\* The page constructs at most MaxFairApps instances; a constructor that was
\* entered runs to its end, and the host runs every pending animation-frame
\* callback eventually.
FairNext ==
    \/ \E i \in Apps \cap 1..MaxFairApps : New(i)
    \/ \E i \in Apps : Continue(i)
    \/ \E i \in Apps : Frame(i)
    \/ \E i \in Apps : Stop(i)
    \/ Tick

FairSpec ==
    /\ Init
    /\ [][FairNext]_vars
    /\ \A i \in Apps : WF_vars(Continue(i)) /\ WF_vars(Frame(i))

\* ====================================================== properties
HasLoop == host.variant # "clear"
Constructed(i) == pc[i] = "constructed" /\ HasLoop
Stopped(i) == hist[i].stopCalled

\* C1: once stop() has been invoked on an instance, at most one more frame is
\* rendered by it and it makes no requestAnimationFrame call any more.
C1_AtMostOneFrameAfterStop ==
    \A i \in Apps :
        Stopped(i) => /\ hist[i].framesAfterStop <= 1
                      /\ hist[i].requestsAfterStop = 0

\* an instance was stopped, rendered its one remaining frame and has nothing pending
C1_Witness ==
    \E i \in Apps : Stopped(i) /\ hist[i].framesAfterStop = 1 /\ pending[i] = 0

\* ------------------------------------------------------------------ C2
Message(failed, text) == IF failed THEN <<text>> ELSE <<>>

\* the diagnostics the four status flags of instance i's shaders and program call for
ShaderMessages(i) ==
    Message(~glShaders[vertexShader[i]].compiled, "Error compiling shader ")
    \o Message(~glShaders[fragmentShader[i]].compiled, "Error compiling shader ")
ProgramMessages(i) ==
    Message(~glPrograms[program[i]].linked, "Could not link program")
    \o Message(~glPrograms[program[i]].validated, "ERROR invalidating program")

\* C2: a diagnostic is written at each of the four status queries exactly when
\* the status is false; no combination of failed statuses raises an exception
\* (only a missing canvas or context ends the constructor early), and the
\* constructor still runs createProgram, createBuffer and mainRenderLoop in
\* order and renders the first frame.
C2_DiagnoseAndContinue ==
    \A i \in Apps :
        /\ pc[i] = "crashed" => (~canvas[i] \/ ~gl[i])
        /\ pc[i] = "createProgram" => hist[i].diag = ShaderMessages(i)
        /\ pc[i] \in {"createBuffer", "mainRenderLoop"} =>
              hist[i].diag = ShaderMessages(i) \o ProgramMessages(i)
        /\ Constructed(i) =>
              /\ hist[i].diag = ShaderMessages(i) \o ProgramMessages(i)
              /\ hist[i].steps = <<"constructor", "setClearColor", "clearScreen",
                                   "createShaders", "createProgram", "createBuffer",
                                   "mainRenderLoop">>
              /\ hist[i].frameOps # <<>>
              /\ hist[i].drawArgs[1] = "TRIANGLES"

\* both shaders failed to compile, so all four diagnostics were written, and the
\* instance was constructed and rendered its first frame all the same
C2_Witness ==
    \E i \in Apps :
        /\ Constructed(i)
        /\ ~host.compileV /\ ~host.compileF
        /\ Len(hist[i].diag) = 4
        /\ hist[i].frameOps # <<>>

\* ------------------------------------------------------------------ C3
\* C3: two instances constructed one after the other share no state: their
\* handles differ, stop() on one leaves the other running with its callback
\* scheduled, and every frame of an instance whose program linked is drawn with
\* that instance's own program and, in the 3-D program, its own world matrix.
C3_InstancesIndependent ==
    \A i \in Apps : \A j \in Apps \ {i} :
        (Constructed(i) /\ Constructed(j)) =>
            /\ program[i] # program[j]
            /\ vertexShader[i] # vertexShader[j]
            /\ fragmentShader[i] # fragmentShader[j]
            /\ triangleVertexBuffer[i] # triangleVertexBuffer[j]
            /\ (Stopped(i) /\ ~Stopped(j)) => (running[j] /\ pending[j] = 1)
            /\ Linked(glPrograms, program[i]) =>
                  /\ hist[i].drawProgram = program[i]
                  /\ host.variant = "3d" => hist[i].drawWorld = worldMatrix[i]

\* ------------------------------------------------------------------ C4
ExpectedPositions == << <<0, 5>>, <<-5, -5>>, <<5, -5>> >>
ExpectedColors == << <<10, 0, 0>>, <<0, 10, 0>>, <<0, 0, 10>> >>

\* the buffer's data is three vertices: x, y (and z = 0 in the 3-D program),
\* then r, g, b, with the literal values of the source
IsTheTriangle(data) ==
    LET n == VertexSize(host.variant)
        np == PositionSize(host.variant)
    IN /\ Len(data) = 3 * n
       /\ \A k \in 1..3 :
            /\ data[(k - 1) * n + 1] = ExpectedPositions[k][1]
            /\ data[(k - 1) * n + 2] = ExpectedPositions[k][2]
            /\ np = 3 => data[(k - 1) * n + 3] = 0
            /\ \A c \in 1..3 : data[(k - 1) * n + np + c] = ExpectedColors[k][c]

BufferCreated(i) == HasLoop /\ pc[i] \in {"mainRenderLoop", "constructed"}

C4_BufferIsTheTriangle ==
    \A i \in Apps :
        BufferCreated(i) =>
            /\ triangleVertexBuffer[i] \in 1..Len(glBuffers)
            /\ IsTheTriangle(glBuffers[triangleVertexBuffer[i]])
            /\ hist[i].bufferData = 1

\* a step taken while no constructor is running is a frame callback, a stop() or
\* a tick of the clock; the step from "mainRenderLoop" is the first frame
C4_FramesLeaveObjectsAlone ==
    ((active = 0 /\ active' = 0)
        \/ \E i \in Apps : pc[i] = "mainRenderLoop" /\ pc'[i] = "constructed") =>
        UNCHANGED <<glBuffers, glArrayBuffer, glAttribs, glShaders, glPrograms,
                    triangleVertexBuffer, vertexShader, fragmentShader, program>>

\* C4: from createBuffer on, the instance's buffer holds exactly the 3 literal
\* vertices and bufferData has been called once; no frame and no stop() creates,
\* rebinds or refills a buffer or rebuilds a shader or program.
C4_BufferFixed == []C4_BufferIsTheTriangle /\ [][C4_FramesLeaveObjectsAlone]_vars

\* a stopped instance has rendered a callback frame and its buffer is the triangle
C4_Witness ==
    \E i \in Apps :
        /\ Constructed(i) /\ Stopped(i) /\ hist[i].framesAfterStop = 1
        /\ Len(glBuffers[triangleVertexBuffer[i]]) = 3 * VertexSize(host.variant)

\* ------------------------------------------------------------------ C5
Count(seq, x) == Cardinality({k \in 1..Len(seq) : seq[k] = x})
Position(seq, x) == CHOOSE k \in 1..Len(seq) : seq[k] = x

Rendered(i) == hist[i].frameOps # <<>>

\* C5: the latest frame of every instance made exactly one clear call and then
\* exactly one drawArrays(TRIANGLES, 0, 3) call; in the 3-D program it also made
\* exactly one uniformMatrix4fv call on the instance's matrixWorld location,
\* before the draw, passing the world matrix just recomputed, and the view and
\* projection uniforms have been uploaded once, by createBuffer.
C5_FrameCalls ==
    \A i \in Apps :
        Rendered(i) =>
            LET ops == hist[i].frameOps IN
            /\ Count(ops, "clear") = 1
            /\ Count(ops, "drawArrays") = 1
            /\ Position(ops, "clear") < Position(ops, "drawArrays")
            /\ hist[i].drawArgs = <<"TRIANGLES", 0, 3>>
            /\ host.variant = "3d" =>
                  /\ Count(ops, "uniformMatrix4fv") = 1
                  /\ Position(ops, "uniformMatrix4fv") < Position(ops, "drawArrays")
                  /\ hist[i].uploaded = worldMatrix[i]
                  /\ hist[i].viewUploads = 1
                  /\ hist[i].projUploads = 1
            /\ host.variant = "2d" => Count(ops, "uniformMatrix4fv") = 0

\* a 3-D instance rendered a callback frame a quarter turn into the period
C5_Witness ==
    \E i \in Apps :
        /\ host.variant = "3d" /\ Constructed(i)
        /\ hist[i].framesAfterStop = 1
        /\ angle[i] = 1
        /\ hist[i].frameOps = <<"uniformMatrix4fv", "clear", "drawArrays">>

\* ------------------------------------------------------------------ C6
\* rotation about the Y axis by q quarter turns, column-major
RotationY(q) ==
    <<Cos(q), 0, -Sin(q), 0,   0, 1, 0, 0,   Sin(q), 0, Cos(q), 0,   0, 0, 0, 1>>

\* quarter turns of the angle (ms / 6000) * 2 * pi
QuarterTurns(ms) == (ms * 4) \div 6000

C6_FrameUploadsRotation ==
    \A i \in Apps :
        (host.variant = "3d" /\ (Frame(i) \/ MainRenderLoop(i))) =>
            /\ hist'[i].uploaded = RotationY(QuarterTurns(now))
            /\ worldMatrix'[i] = RotationY(QuarterTurns(now))
            /\ angle'[i] = QuarterTurns(now)

C6_SameTimeSameMatrix ==
    \A i \in Apps : \A j \in Apps :
        (host.variant = "3d" /\ Rendered(i) /\ Rendered(j) /\ angle[i] = angle[j]) =>
            hist[i].uploaded = hist[j].uploaded

\* C6: the matrix a 3-D frame uploads at time t is the rotation about Y by
\* (t / 6000) * 2 * pi applied to the identity, whatever frames came before; two
\* instances whose latest frames were rendered at the same t uploaded the same matrix.
C6_WorldIsRotationOfTime == [][C6_FrameUploadsRotation]_vars /\ []C6_SameTimeSameMatrix

\* one instance rendered its first and only frame, another a later callback
\* frame, both a quarter turn into the period, and both uploaded that rotation
C6_Witness ==
    \E i \in Apps : \E j \in Apps \ {i} :
        /\ host.variant = "3d" /\ Constructed(i) /\ Constructed(j)
        /\ hist[i].framesAfterStop = 1
        /\ angle[i] = 1 /\ angle[j] = 1
        /\ hist[i].uploaded = <<0, 0, -1, 0,   0, 1, 0, 0,   1, 0, 0, 0,   0, 0, 0, 1>>
        /\ hist[j].uploaded = hist[i].uploaded

\* ------------------------------------------------------------------ C7
PrimaryIsNull == ~HostGetContext("webgl")
SecondaryIsNull == ~HostGetContext("experimental-webgl")

\* C7: once getContext has been tried, "webgl" was requested first; the name
\* "experimental-webgl" was requested, once, exactly when "webgl" returned null;
\* and when both returned null the constructor wrote no diagnostic and went on
\* to setClearColor, which throws on the null context.
C7_OneLevelFallback ==
    \A i \in Apps :
        LET r == hist[i].contextRequests IN
        /\ (pc[i] \notin {"none", "getContext"} /\ canvas[i]) =>
              /\ Len(r) \in {1, 2}
              /\ r[1] = "webgl"
              /\ Len(r) = 2 <=> PrimaryIsNull
              /\ Len(r) = 2 => r[2] = "experimental-webgl"
              /\ (PrimaryIsNull /\ SecondaryIsNull) =>
                    /\ pc[i] \in {"setClearColor", "crashed"}
                    /\ ~gl[i]
                    /\ hist[i].diag = <<>>
                    /\ hist[i].steps = <<"constructor">>
        /\ pc[i] \in {"none", "getContext"} => r = <<>>

\* both names were requested, both returned null, and setClearColor threw
C7_Witness ==
    \E i \in Apps :
        /\ pc[i] = "crashed" /\ canvas[i]
        /\ hist[i].contextRequests = <<"webgl", "experimental-webgl">>

\* ------------------------------------------------------------------ C8
\* the one frame owed after stop() is either already rendered or still pending,
\* and a pending callback belongs to a constructed instance, so the host can run it
C8_OneFrameOwed ==
    \A i \in Apps :
        Stopped(i) =>
            /\ hist[i].framesAfterStop + pending[i] = 1
            /\ pending[i] = 1 => pc[i] = "constructed"

\* a callback run after stop() clears and draws without looking at the flag,
\* and schedules nothing
C8_PendingFrameRunsInFull ==
    \A i \in Apps :
        (Stopped(i) /\ Frame(i)) =>
            /\ Count(hist'[i].frameOps, "clear") = 1
            /\ Count(hist'[i].frameOps, "drawArrays") = 1
            /\ hist'[i].framesAfterStop = hist[i].framesAfterStop + 1
            /\ pending'[i] = 0

\* C8: the flag is read only after the frame was cleared and drawn: the callback
\* pending when stop() is invoked still renders a full frame, once, and only the
\* scheduling of the next one is suppressed; stop() between two frames is
\* followed by exactly one more rendered frame.
C8_ExactlyOneMoreFrame == []C8_OneFrameOwed /\ [][C8_PendingFrameRunsInFull]_vars

\* stop() was invoked while the instance's callback is still pending
C8_Witness ==
    \E i \in Apps :
        Stopped(i) /\ ~running[i] /\ pending[i] = 1 /\ hist[i].framesAfterStop = 0

\* ------------------------------------------------------------------ C9
C9_AtMostOnePending ==
    \A i \in Apps :
        /\ pending[i] <= 1
        /\ pc[i] # "constructed" => pending[i] = 0

\* a callback is scheduled only by loop(): by the first, synchronous one when
\* nothing is pending, or by a callback, which consumed the pending one
C9_OnlyLoopSchedules ==
    \A i \in Apps :
        /\ pending'[i] # pending[i] => (MainRenderLoop(i) \/ Frame(i))
        /\ pending'[i] > pending[i] => (MainRenderLoop(i) /\ pending[i] = 0)
        /\ Stop(i) => pending'[i] = pending[i]

\* C9: at most one requestAnimationFrame callback of an instance is pending;
\* none is pending while its constructor runs up to the first frame, a callback
\* is scheduled only at the end of a frame, and stop() schedules none.
C9_OneCallbackPending == []C9_AtMostOnePending /\ [][C9_OnlyLoopSchedules]_vars

\* two running instances, each with its one callback pending
C9_Witness ==
    \E i \in Apps : \E j \in Apps \ {i} :
        /\ Constructed(i) /\ Constructed(j)
        /\ running[i] /\ running[j]
        /\ pending[i] = 1 /\ pending[j] = 1

\* ------------------------------------------------------------------ C10
C10_StartsTrue ==
    \A i \in Apps : (pc[i] # "none" /\ ~Stopped(i)) => running[i]

C10_NeverSetBack ==
    \A i \in Apps : (pc[i] # "none" /\ ~running[i]) => ~running'[i]

C10_StopSetsFalse ==
    \A i \in Apps : Stop(i) => ~running'[i]

\* C10: the flag starts true, stop() sets it false and nothing sets it back, a
\* second stop() included; once stop() has been invoked the instance reaches,
\* and stays in, the state with the flag false and no callback pending.
C10_RunningMonotone ==
    /\ []C10_StartsTrue
    /\ [][C10_NeverSetBack /\ C10_StopSetsFalse]_vars
    /\ \A i \in Apps : Stopped(i) ~> [](~running[i] /\ pending[i] = 0)

\* a stopped instance at rest: flag false, nothing pending, its last frame rendered
C10_Witness ==
    \E i \in Apps :
        /\ Constructed(i) /\ Stopped(i) /\ ~running[i]
        /\ pending[i] = 0 /\ hist[i].framesAfterStop = 1
        /\ hist[i].requestsAfterStop = 0
====
